---- MODULE Spec2Model ----
(***************************************************************************)
(* Model of the storybook server: the record store (MemStorage), the two   *)
(* HTTP endpoints (POST /api/books/generate, POST /api/orders), the        *)
(* narrative adapter (generateVisualStory) and the illustration adapters   *)
(* (generateBookImage, generateVisualStoryPages, generateImageWithGemini,  *)
(* generateVisualStoryImagesWithGemini).                                   *)
(*                                                                         *)
(* One action is one turn of the Node event loop: the code that runs from  *)
(* an I/O completion (a request arriving, a provider call returning, a     *)
(* timer firing) up to the next point where the handler waits for I/O.     *)
(* Awaits on already settled promises (the MemStorage methods) do not      *)
(* return to the event loop and are part of the same action.               *)
(*                                                                         *)
(* The repository holds two drafts of server/gemini.ts and two drafts of   *)
(* the illustration half of server/openai.ts; the variable `build` says    *)
(* which pair is linked.                                                   *)
(***************************************************************************)
EXTENDS Integers, Sequences, FiniteSets, TLC

\* ------------------------------------------------------------------ bounds
MaxPages == 1        \* longest story in Spec (store and interleavings)
MaxGenPages == 4     \* longest story in SpecGen (one generate request)
MaxBooks == 2        \* generate requests that may create a Book
MaxOrders == 2       \* order requests that may create an Order
MaxLivePages == 3    \* longest story in SpecLive (termination)
MaxSharedCalls == 2  \* adapter calls per handler in SpecShared

Req == {"r1", "r2"}  \* requests that can be in flight at the same time

\* ------------------------------------------------------- program constants
InterestsMin == 1    \* bookGenerationSchema: interests .min(1)
InterestsMax == 3    \* bookGenerationSchema: interests .max(3)
CompanionsMax == 2   \* bookGenerationSchema: companions .max(2)
maxConcurrent == 2   \* generateVisualStoryImagesWithGemini batch width
PreviewCount == 2    \* route: allPageImages.slice(0, Math.min(2, ...))

\* --------------------------------------------------------- image references
\* An image reference is a URL or path string; `page` is the "&page=<index>"
\* suffix some fallbacks append (-1: none).
Ref(u, p) == [url |-> u, page |-> p]
Url(u) == Ref(u, -1)
Null == Ref("<null>", -1)
Undefined == Ref("<undefined>", -1)
EmptyString == Url("")

\* The fallback pool of server/gemini.ts, index 0..10.
demoBookImages ==
  << "photo-1629414278888-abcdb8e0a904", "photo-1631891909383-a68ec028cdc4",
     "photo-1516627145497-ae6968895b40", "photo-1636739653660-a33496c0e657",
     "photo-1594745561149-2211ca8c5d98", "photo-1558959615-b78f78af0a7f",
     "photo-1578897366846-369bb25b83ef", "photo-1590697151592-b48c66634e9f",
     "photo-1551601651-09ebecb891a1", "photo-1518791841217-8f162f1e1131",
     "photo-1535380097097-d53e3090abc8" >>
PoolSize == Len(demoBookImages)
Pool(k) == Url(demoBookImages[k + 1])
PoolRefs == {Pool(k) : k \in 0 .. PoolSize - 1}

\* The single stock image of generateBookImage and of the retrying draft.
StockCover == Url("photo-1573505790261-dcac3e00c337")
\* `...abcdb8e0a904?w=800&auto=format&fit=crop&page=${index}`
PageStock(index) == Ref("photo-1629414278888-abcdb8e0a904", index)

\* JavaScript truthiness of an array slot (`!images[i]`).
Truthy(x) == x \notin {Null, Undefined, EmptyString}

\* ------------------------------------------------------------- JS arrays
\* A JavaScript array as a sequence; index i (0-based) is element i + 1.
\* Assigning past the end leaves holes that read as undefined.
SetAt(arr, i, v) ==
  [k \in 1 .. (IF i + 1 > Len(arr) THEN i + 1 ELSE Len(arr)) |->
     IF k = i + 1 THEN v ELSE IF k <= Len(arr) THEN arr[k] ELSE Undefined]
Slice(arr, from, to) ==
  [k \in 1 .. (IF to > Len(arr) THEN Len(arr) ELSE to) - from |-> arr[from + k]]
Min(a, b) == IF a < b THEN a ELSE b

\* ------------------------------------------------------------------ state
VARIABLES
  build,     \* which drafts are linked: [gemini, openai]
  books,     \* MemStorage.books: id -> Book
  orders,    \* MemStorage.orders: id -> Order
  bookId,    \* MemStorage.bookId: next Book id
  orderId,   \* MemStorage.orderId: next Order id
  req,       \* per generate request in flight: the handler's locals
  last,      \* the HTTP response sent by the latest step, with its request
  imageCounter,  \* `let imageCounter = 0` of server/gemini.ts (module state)
  wizard,    \* the client: the state of the CreateBook page and its mutations
  probing,   \* the locals of the loop that looks for an unused pool index
  microtasks \* the order handlers suspended at an await, in queue order

vars ==
  <<build, books, orders, bookId, orderId, req, last, imageCounter, wizard,
    probing, microtasks>>

\* ----------------------------------------------------------- request bodies
\* POST /api/books/generate body. `required` says that every required string
\* field is present and non-empty; `extras` that the optional appearance
\* attributes (hairColor, eyeColor, ...) were sent.
GenBody(i, c, ok, x) ==
  [interests |-> i, companions |-> c, required |-> ok, extras |-> x,
   characterStyle |-> IF x THEN "watercolor" ELSE "cartoon"]
InvalidBodies ==
  { GenBody(InterestsMin - 1, 0, TRUE, FALSE),
    GenBody(InterestsMax + 1, CompanionsMax, TRUE, FALSE),
    GenBody(InterestsMin, CompanionsMax + 1, TRUE, FALSE),
    GenBody(InterestsMax, 0, FALSE, FALSE) }
GenBodies ==
  { GenBody(InterestsMin, 0, TRUE, FALSE),
    GenBody(InterestsMax, CompanionsMax, TRUE, TRUE) } \cup InvalidBodies
\* One valid body and one invalid body.
FewBodies ==
  { GenBody(InterestsMax, CompanionsMax, TRUE, FALSE),
    GenBody(InterestsMax + 1, CompanionsMax, TRUE, FALSE) }

\* POST /api/orders body. bookId 0 stands for an absent (or zero) bookId;
\* `fields` says that firstName, lastName, email, format and total pass the
\* checkout schema.
Checkouts == { [format |-> "hardcover", total |-> "29.99"],
               [format |-> "digital", total |-> "9.99"] }
OrderBody(b, ok, c) ==
  [bookId |-> b, fields |-> ok, format |-> c.format, total |-> c.total]
OrderBodies ==
  { OrderBody(b, TRUE, c) : b \in 0 .. MaxBooks + 1, c \in Checkouts }
    \cup { OrderBody(1, FALSE, c) : c \in Checkouts }

\* ------------------------------------------------------------ validation
\* Variant: a schema whose interests array has no .max(3).
bookGenerationSchemaNoMax(body) ==
  /\ body.required
  /\ body.interests >= InterestsMin
  /\ body.companions <= CompanionsMax

\* bookGenerationSchema.parse: TRUE when it returns, FALSE when it throws
\* a ZodError.
bookGenerationSchemaOk(body) ==
  /\ body.required
  /\ body.interests >= InterestsMin
  /\ body.interests <= InterestsMax
  /\ body.companions <= CompanionsMax

\* checkoutSchema.parse (bookId is optional there).
checkoutSchemaOk(body) == body.fields

\* ------------------------------------------------------------ MemStorage
getBook(bks, id) == IF id \in DOMAIN bks THEN bks[id] ELSE Undefined

\* Variant: createBook reading this.bookId without the post-increment.
createBookSameId(bks, nextId, bookData) ==
  LET book == [id |-> nextId, createdAt |-> nextId] @@ bookData
  IN [books |-> (nextId :> book) @@ bks, bookId |-> nextId, book |-> book]

\* createBook: id allocation and insertion, with no await between them.
createBook(bks, nextId, bookData) ==
  LET book == [id |-> nextId, createdAt |-> nextId] @@ bookData
  IN [books |-> (nextId :> book) @@ bks, bookId |-> nextId + 1, book |-> book]

\* Variant: the stored record replaced by the updates and the id.
updateBookReplaces(bks, id, updates) ==
  IF getBook(bks, id) = Undefined
  THEN [threw |-> TRUE, books |-> bks]
  ELSE [threw |-> FALSE, books |-> [bks EXCEPT ![id] = updates @@ [id |-> id]]]

\* Variant: the spread the other way round, { ...updates, ...book }.
updateBookKeepsOld(bks, id, updates) ==
  IF getBook(bks, id) = Undefined
  THEN [threw |-> TRUE, books |-> bks]
  ELSE [threw |-> FALSE, books |-> [bks EXCEPT ![id] = bks[id] @@ updates]]

\* updateBook: { ...book, ...updates }; throws when the id is unknown.
updateBook(bks, id, updates) ==
  IF getBook(bks, id) = Undefined
  THEN [threw |-> TRUE, books |-> bks]
  ELSE [threw |-> FALSE, books |-> [bks EXCEPT ![id] = updates @@ bks[id]]]

createOrder(ords, nextId, orderData) ==
  LET order == [id |-> nextId, createdAt |-> nextId] @@ orderData
  IN [orders |-> (nextId :> order) @@ ords, orderId |-> nextId + 1,
      order |-> order]


\* ------------------------------------------------------------------ texts
\* A string as far as the code looks at it: the keywords it contains
\* (String.includes on the lower-cased text) and its length.
Text(words, len) == [words |-> words, len |-> len]
Has(text, keywords) == text.words \cap keywords # {}
\* A template literal around one text: the template's own keywords and
\* characters are added.
Wrap(text, words, len) == Text(text.words \cup words, text.len + len)

\* StoryPage: page number i of a story (its text is identified by i).
SceneOf(i) ==
  CASE i = 1 -> Text({}, 40 + i)
    [] i % 2 = 0 -> Text({"forest", "trees"}, 52 + i)
    [] OTHER -> Text({"castle", "space"}, 47 + i)
PageOf(i) == [text |-> i, description |-> SceneOf(i)]
StoryOf(n) == [title |-> Text({"adventure"}, 18), hasPages |-> TRUE,
               pages |-> [i \in 1 .. n |-> PageOf(i)]]
\* JSON without a pages array: result.pages is undefined.
StoryWithoutPages == [title |-> Text({"magic"}, 12), hasPages |-> FALSE,
                      pages |-> <<>>]

\* ------------------------------------------------- image provider outcomes
\* What one call of the hosted image provider can do.  "ok": it answers
\* with content (`text`: the description the stock draft asks for; `file`:
\* the name under which the retrying draft saves the returned image);
\* "nodata": it answers without usable content; "http": a non-2xx status;
\* "throw": the call raises.
Outcome(k, t, f) == [kind |-> k, text |-> t, file |-> f]
Descriptions == {Text({"ocean", "water"}, 120)}
FileNames == {"/images/image_a1b2c3d4e5f6.png"}
FailKinds == {"nodata", "http", "throw"}
OkOutcomes == {Outcome("ok", d, f) : d \in Descriptions, f \in FileNames}
FailOutcomes == {Outcome(k, Text({}, 0), "") : k \in FailKinds}
AllOutcomes == OkOutcomes \cup FailOutcomes

\* ------------------------------- generateImageWithGemini, server/gemini.ts
\* The result of one adapter call: `threw` (the promise rejected), the
\* returned reference, whether the provider failed, and the attempts made.
Result(t, v, f, n) == [threw |-> t, value |-> v, failed |-> f, attempts |-> n]

\* semanticIndex: the stock image chosen from the provider's description.
semanticIndex(description) ==
  IF Has(description, {"forest", "trees", "nature", "woods"}) THEN 2
  ELSE IF Has(description, {"ocean", "sea", "water", "beach"}) THEN 5
  ELSE IF Has(description, {"space", "stars", "planet", "galaxy"}) THEN 6
  ELSE IF Has(description, {"castle", "palace", "kingdom", "fairy tale"}) THEN 4
  ELSE IF Has(description, {"animal", "pet", "creature"}) THEN 9
  ELSE IF Has(description, {"adventure", "journey", "quest"}) THEN 3
  ELSE IF Has(description, {"magic", "wizard", "spell", "mystical"}) THEN 10
  ELSE description.len % PoolSize

\* imageIndex of the catch block: the stock image chosen from the prompt.
imageIndex(prompt) ==
  IF Has(prompt, {"forest", "trees", "woods", "nature"}) THEN 2
  ELSE IF Has(prompt, {"ocean", "sea", "underwater", "fish"}) THEN 5
  ELSE IF Has(prompt, {"space", "planet", "stars", "moon"}) THEN 6
  ELSE IF Has(prompt, {"castle", "princess", "prince", "king"}) THEN 4
  ELSE IF Has(prompt, {"animal", "pet", "dog", "cat"}) THEN 9
  ELSE IF Has(prompt, {"adventure", "journey", "explore"}) THEN 3
  ELSE IF Has(prompt, {"magic", "wizard", "spell"}) THEN 10
  ELSE prompt.len % PoolSize

\* The inner try of the stock draft: TRUE when it throws.  A response
\* without candidates yields the empty description and does not throw.
StockInnerThrows(outcome) == outcome.kind \in {"http", "throw"}
StockDescription(outcome) ==
  IF outcome.kind = "ok" THEN outcome.text ELSE Text({}, 0)

\* Variant: an outer catch that rethrows instead of absorbing.
StockCatchRethrows(prompt) == Result(TRUE, Undefined, TRUE, 1)

\* The outer catch of the stock draft absorbs every failure.
StockCatch(prompt) == Result(FALSE, Pool(imageIndex(prompt)), TRUE, 1)

generateImageWithGeminiStock(prompt, outcome) ==
  IF StockInnerThrows(outcome)
  THEN StockCatch(prompt)
  ELSE Result(FALSE, Pool(semanticIndex(StockDescription(outcome))),
              outcome.kind # "ok", 1)

\* ------------------------- generateImageWithGemini, the retrying draft
\* generateImage: TRUE when it throws (provider error, or no inlineData
\* part in the response).
generateImageThrows(outcome) == outcome.kind # "ok"
\* Variant: a last catch that rethrows once both attempts have failed.
RetryCatchRethrows(attempt) == Result(TRUE, Undefined, TRUE, attempt)

\* The last catch: the stock reference once both attempts have failed.
RetryCatch(attempt) == Result(FALSE, StockCover, TRUE, attempt)
\* One provider attempt returning: the adapter settles, or (retry |-> TRUE)
\* it goes on to the attempt with the simplified prompt.
generateImageWithGeminiRetry(attempt, outcome) ==
  IF ~generateImageThrows(outcome)
  THEN [retry |-> FALSE, result |-> Result(FALSE, Url(outcome.file), FALSE, attempt)]
  ELSE IF attempt = 1
  THEN [retry |-> TRUE, result |-> Result(FALSE, Undefined, TRUE, attempt)]
  ELSE [retry |-> FALSE, result |-> RetryCatch(attempt)]

\* One provider attempt of an adapter call returning, in the linked draft.
generateImageWithGemini(gemini, prompt, attempt, outcome) ==
  IF gemini = "stock"
  THEN [retry |-> FALSE, result |-> generateImageWithGeminiStock(prompt, outcome)]
  ELSE generateImageWithGeminiRetry(attempt, outcome)

\* The module counter.  The stock draft increments it in its outer catch and
\* never reads it; the retrying draft has none.  Spec, SpecGen and SpecLive
\* link those drafts and leave the counter out; SpecShared follows it.
stockImageCounter(outcome, counter) ==
  IF StockInnerThrows(outcome) THEN counter + 1 ELSE counter

\* generateImageWithGemini of the counting draft (unnamed/part_005): the
\* entry selected by the prompt when the provider call returns, the entry
\* at imageCounter % length when it raises.
generateImageWithGeminiCounting(prompt, outcome, counter) ==
  IF outcome.kind \in {"http", "throw"}
  THEN [result |-> Result(FALSE, Pool(counter % PoolSize), TRUE, 1),
        imageCounter |-> counter + 1]
  ELSE [result |-> Result(FALSE, Pool(imageIndex(prompt)), outcome.kind # "ok", 1),
        imageCounter |-> counter]

\* One adapter call settling in a draft that has the module counter.
generateImageWithGeminiShared(gemini, prompt, outcome, counter) ==
  IF gemini = "counting"
  THEN generateImageWithGeminiCounting(prompt, outcome, counter)
  ELSE [result |-> generateImageWithGeminiStock(prompt, outcome),
        imageCounter |-> stockImageCounter(outcome, counter)]

\* --------------------------------------------------- character description
\* A character description: the base sentence (name, gender or "child",
\* hair style, skin tone: required fields of the body it is built from),
\* and the optional attributes named after it (". They have ...").
Description(b, d) == [base |-> b, details |-> d]
NoDescription == Description("", {})
BaseDescription(bookData) ==
  IF bookData.required THEN "name, a gender with hair style hair and skin tone skin tone"
  ELSE "undefined, a undefined with undefined hair and undefined skin tone"
OptionalAttributes ==
  {"hairColor", "eyeColor", "height", "buildType", "facialFeatures",
   "clothingStyle", "accessories"}
\* The attributes `if (bookData.x)` finds in the object it is given.
PresentAttributes(bookData) == IF bookData.extras THEN OptionalAttributes ELSE {}

\* generateVisualStory, lines 118-146 (first draft) and 474 (second draft).
narrativeCharacterDesc(openai, bookData) ==
  IF openai = "absorb"
  THEN Description(BaseDescription(bookData), PresentAttributes(bookData))
  ELSE Description(BaseDescription(bookData), {})

\* The route, line 257.
routeCharacterDesc(data) == Description(BaseDescription(data), {})

\* ------------------------------------------------------------- responses
NoResult == Result(FALSE, Undefined, FALSE, 0)

\* The locals of one POST /api/books/generate handler.
\*   calls:   adapter calls waiting for the provider, index -> attempt, prompt
\*   settled: the adapter calls of the batch function that have settled,
\*            in the order in which they settled
\*   narr:    what the narrative provider call did
\*   nNarr, nImg, nWrite: provider calls and store writes made so far
\*   narrativeDesc: the character description generateVisualStory built
\*   characterDesc: the character description of the route (line 257)
Idle ==
  [pc |-> "idle", body |-> GenBody(0, 0, FALSE, FALSE), narr |-> "none",
   narrativeDesc |-> NoDescription, characterDesc |-> NoDescription,
   story |-> StoryWithoutPages, cover |-> NoResult, first |-> NoResult,
   prompts |-> <<>>, mode |-> "none", i |-> 0, images |-> <<>>, used |-> {},
   calls |-> <<>>, settled |-> <<>>, generated |-> <<>>,
   nNarr |-> 0, nImg |-> 0, nWrite |-> 0]

NoResponse ==
  [kind |-> "none", rid |-> "", body |-> <<>>, status |-> 0, message |-> "",
   result |-> <<>>, slot |-> Idle]
Response(k, rid, body, st, msg, res, slot) ==
  [kind |-> k, rid |-> rid, body |-> body, status |-> st, message |-> msg,
   result |-> res, slot |-> slot]

\* What a turn of a generate handler leaves: its locals, the store, and the
\* response if it sent one (status 0: none).
Out(slot, bks, nextId, st, msg, res) ==
  [slot |-> slot, books |-> bks, bookId |-> nextId, status |-> st,
   message |-> msg, result |-> res]
Waiting(slot, bks, nextId) == Out(slot, bks, nextId, 0, "", <<>>)

\* --------------------------------------------- POST /api/books/generate
\* Variant: a schema that lets the keys it does not name through.
validatedDataPassthrough(body) == body

\* zod strips the keys the schema does not name (the optional appearance
\* attributes) from the parsed body.
validatedData(body) == [body EXCEPT !.extras = FALSE]

\* Variant: a catch block that logs the error and sends nothing.
RouteCatchSendsNothing(slot, bks, nextId, errorMessage) ==
  Out(slot, bks, nextId, 0, "", <<>>)

\* The route's catch block for an error that is not a ZodError.
RouteCatch(slot, bks, nextId, errorMessage) ==
  Out(slot, bks, nextId, 500, errorMessage, <<>>)

\* Lines 269-321 of the route: previews, content, createBook, response.
RouteFinish(slot, allPageImages, bks, nextId) ==
  LET pages == slot.story.pages
      previewImages ==
        Slice(allPageImages, 0, Min(PreviewCount, Len(allPageImages)))
      storyContent == [k \in 1 .. Len(pages) |-> pages[k].text]
      cb == createBook(bks, nextId,
              [title |-> slot.story.title,
               request |-> validatedData(slot.body),
               storyContent |-> storyContent,
               coverImageUrl |-> slot.cover.value,
               previewImages |-> previewImages,
               format |-> "pending", price |-> "0",
               allPageImages |-> allPageImages,
               storyPages |-> pages])
      payload ==
        [bookId |-> cb.book.id, title |-> slot.story.title,
         content |-> storyContent, coverImageUrl |-> slot.cover.value,
         previewImages |-> previewImages,
         pages |-> [k \in 1 .. Len(pages) |->
                      [text |-> pages[k].text,
                       imageUrl |-> IF k - 1 < Len(allPageImages)
                                    THEN allPageImages[k] ELSE Null]]]
  IN Out([slot EXCEPT !.nWrite = @ + 1], cb.books, cb.bookId, 200, "", payload)

\* -------------------------------------------------------------- prompts
coverPrompt(story) == Wrap(story.title, {}, 70)
firstPagePrompt(page) == Wrap(page.description, {}, 546)
remainingPagePrompt(page) == Wrap(page.description, {}, 766)
sequentialPrompt(page, i) ==
  IF i = 0 THEN Wrap(page.description, {}, 158)
  ELSE Wrap(page.description, {"king"}, 228)
simplifiedPrompt(page) ==
  Wrap(Text(page.description.words, Min(page.description.len, 100)), {}, 156)
draftPagePrompt(page) == Wrap(page.description, {}, 208)

\* The adapter is called: its first provider attempt starts.
StartCall(slot, index, prompt) ==
  [slot EXCEPT !.calls = (index :> [attempt |-> 1, prompt |-> prompt]) @@ @,
               !.nImg = @ + 1]
RECURSIVE StartCalls(_, _, _)
StartCalls(slot, from, to) ==
  IF from >= to THEN slot
  ELSE StartCalls(StartCall(slot, from, slot.prompts[from + 1]), from + 1, to)

\* ------------------- generateVisualStoryImagesWithGemini (batch function)
\* The settled call with the given index (Promise.all keeps positions).
SettledAt(slot, index) ==
  (CHOOSE k \in 1 .. Len(slot.settled) : slot.settled[k].index = index)
ResultAt(slot, index) == slot.settled[SettledAt(slot, index)].result
\* The index a settled call's result object carries: { ..., index: promptIndex }.
ResultIndex(slot, index) == slot.settled[SettledAt(slot, index)].index

\* Stock draft, lines 259-271: the fallback for a rejected call.
batchFallbackIndex(prompt, index) ==
  IF Has(prompt, {"forest", "trees"}) THEN 2
  ELSE IF Has(prompt, {"ocean", "sea"}) THEN 5
  ELSE IF Has(prompt, {"space"}) THEN 6
  ELSE IF Has(prompt, {"castle"}) THEN 4
  ELSE index % PoolSize

\* Lines 276-279: the probe for a fallback index that is not used yet.
RECURSIVE probe(_, _)
probe(used, newIndex) ==
  IF newIndex \in used /\ Cardinality(used) < PoolSize - 1
  THEN probe(used, (newIndex + 1) % PoolSize)
  ELSE newIndex

\* Lines 273-281.
unusedFallbackIndex(used, fallbackIndex) ==
  IF fallbackIndex \in used /\ Cardinality(used) < PoolSize - 1
  THEN probe(used, (fallbackIndex + 1) % PoolSize)
  ELSE fallbackIndex

\* Lines 250-287 for one result of the batch.
processResult(slot, index) ==
  LET result == ResultAt(slot, index)
      at == ResultIndex(slot, index)
      fallbackIndex ==
        unusedFallbackIndex(slot.used,
                            batchFallbackIndex(slot.prompts[at + 1], at))
  IN IF ~result.threw
     THEN [slot EXCEPT !.images = SetAt(@, at, result.value)]
     ELSE [slot EXCEPT !.images = SetAt(@, at, Pool(fallbackIndex)),
                       !.used = @ \cup {fallbackIndex}]
RECURSIVE processResults(_, _, _)
processResults(slot, from, to) ==
  IF from >= to THEN slot
  ELSE processResults(processResult(slot, from), from + 1, to)

\* Lines 295-302: the final sweep over the slots that are still empty.
RECURSIVE fillEmptySlots(_, _, _)
fillEmptySlots(images, index, n) ==
  IF index >= n THEN images
  ELSE fillEmptySlots(
         IF index + 1 > Len(images) \/ ~Truthy(images[index + 1])
         THEN SetAt(images, index, Pool(index % PoolSize)) ELSE images,
         index + 1, n)

\* Variant: the failed pages filtered out of the returned array.
retryImageUrlsFiltered(slot) ==
  LET all == [k \in 1 .. Len(slot.prompts) |-> ResultAt(slot, k - 1)]
      kept == SelectSeq(all, LAMBDA r : ~r.failed)
  IN [k \in 1 .. Len(kept) |-> kept[k].value]

\* Retrying draft, lines 196-202: the URL of each index, or the page stock.
retryImageUrls(slot) ==
  [k \in 1 .. Len(slot.prompts) |->
     IF ~ResultAt(slot, k - 1).threw THEN ResultAt(slot, k - 1).value
     ELSE PageStock(k - 1)]

\* The end of the batch the stock draft is in.
BatchEnd(slot) == Min(slot.i + maxConcurrent, Len(slot.prompts))


\* Variant: the first page's image is not put in front of the others.
batchReturnedWithoutFirst(slot, urls, bks, nextId) ==
  RouteFinish(slot, urls, bks, nextId)

\* `await generateVisualStoryImagesWithGemini(...)` has returned `urls` to
\* generateVisualStoryPages, whose own result goes to the route.
batchReturned(slot, urls, bks, nextId) ==
  IF slot.mode = "try"
  THEN RouteFinish(slot, <<slot.first.value>> \o urls, bks, nextId)
  ELSE RouteFinish(slot, urls, bks, nextId)

\* The batch function is entered: the stock draft starts the calls of its
\* first batch, the retrying draft all calls at once (Promise.all).
startBatch(gemini, slot0, prompts, mode, bks, nextId) ==
  LET slot == [slot0 EXCEPT !.pc = "batch", !.prompts = prompts,
                            !.mode = mode, !.i = 0, !.images = <<>>,
                            !.used = {}, !.settled = <<>>]
  IN IF prompts = <<>>
     THEN batchReturned(slot, <<>>, bks, nextId)
     ELSE IF gemini = "stock"
     THEN Waiting(StartCalls(slot, 0, BatchEnd(slot)), bks, nextId)
     ELSE Waiting(StartCalls(slot, 0, Len(prompts)), bks, nextId)

\* Every call the batch function waits for has settled.
batchSettled(gemini, slot, bks, nextId) ==
  IF gemini = "stock"
  THEN LET s1 == processResults(slot, slot.i, BatchEnd(slot))
           s2 == [s1 EXCEPT !.images =
                     fillEmptySlots(s1.images, 0, Len(s1.prompts))]
       IN IF slot.i + maxConcurrent < Len(slot.prompts)
          THEN Waiting([s1 EXCEPT !.pc = "delay"], bks, nextId)
          ELSE batchReturned(s2, s2.images, bks, nextId)
  ELSE LET s1 == [slot EXCEPT !.images = retryImageUrls(slot)]
       IN batchReturned(s1, s1.images, bks, nextId)

\* ------------------------------- generateVisualStoryPages, server/openai.ts
\* The sequential second approach of the absorbing draft (lines 291-317).
sequentialSettled(gemini, slot, result, bks, nextId) ==
  LET pages == slot.story.pages
      s1 == [slot EXCEPT !.generated = Append(@, result.value), !.i = @ + 1]
  IN IF result.threw
     THEN startBatch(gemini, slot,
                     [k \in 1 .. Len(pages) |-> simplifiedPrompt(pages[k])],
                     "last", bks, nextId)
     ELSE IF s1.i >= Len(pages)
     THEN RouteFinish(s1, s1.generated, bks, nextId)
     ELSE Waiting(StartCall(s1, s1.i, sequentialPrompt(pages[s1.i + 1], s1.i)),
                  bks, nextId)

\* Variant: the batch is given every page, the first one again.
firstPageSettledAllPages(gemini, slot, bks, nextId) ==
  LET pages == slot.story.pages IN
  IF slot.first.threw
  THEN Waiting(StartCall([slot EXCEPT !.pc = "seq", !.i = 0, !.generated = <<>>],
                         0, sequentialPrompt(pages[1], 0)), bks, nextId)
  ELSE startBatch(gemini, slot,
                  [k \in 1 .. Len(pages) |-> remainingPagePrompt(pages[k])],
                  "try", bks, nextId)

\* The first page's call of the absorbing draft has settled (lines 249-284).
firstPageSettled(gemini, slot, bks, nextId) ==
  LET pages == slot.story.pages IN
  IF slot.first.threw
  THEN Waiting(StartCall([slot EXCEPT !.pc = "seq", !.i = 0, !.generated = <<>>],
                         0, sequentialPrompt(pages[1], 0)), bks, nextId)
  ELSE startBatch(gemini, slot,
                  [k \in 1 .. Len(pages) - 1 |-> remainingPagePrompt(pages[k + 1])],
                  "try", bks, nextId)

\* generateVisualStoryPages is entered.  With pages undefined every approach
\* of the absorbing draft raises a TypeError, the last one out of the
\* function; with no page, pages[0].description raises and the sequential
\* approach returns the empty list.
generateVisualStoryPages(b, slot, bks, nextId) ==
  LET pages == slot.story.pages IN
  IF b.openai = "absorb"
  THEN IF ~slot.story.hasPages
       THEN RouteCatch(slot, bks, nextId,
                       "Cannot read properties of undefined (reading 'map')")
       ELSE IF pages = <<>>
       THEN RouteFinish(slot, <<>>, bks, nextId)
       ELSE Waiting(StartCall([slot EXCEPT !.pc = "first"], 0,
                              firstPagePrompt(pages[1])), bks, nextId)
  ELSE IF ~slot.story.hasPages
       THEN RouteCatch(slot, bks, nextId,
              "Failed to generate story illustrations with Gemini. Please try again later.")
       ELSE startBatch(b.gemini, slot,
                       [k \in 1 .. Len(pages) |-> draftPagePrompt(pages[k])],
                       "draft", bks, nextId)

\* generateBookImage: the absorbing draft replaces a rejection by the stock
\* cover, the other draft raises its own error.
generateBookImage(openai, result) ==
  IF ~result.threw THEN result
  ELSE IF openai = "absorb" THEN Result(FALSE, StockCover, TRUE, result.attempts)
  ELSE result

\* Variant: the Book is inserted and the response sent once the cover is
\* there, before the pages are illustrated.
coverSettledInsertsBook(b, slot0, result, bks, nextId) ==
  RouteFinish([slot0 EXCEPT !.cover = generateBookImage(b.openai, result)],
              <<>>, bks, nextId)

\* The cover call has settled: lines 260-267 of the route.
coverSettled(b, slot0, result, bks, nextId) ==
  LET slot == [slot0 EXCEPT !.cover = generateBookImage(b.openai, result)]
  IN IF slot.cover.threw
     THEN RouteCatch(slot, bks, nextId,
                     "Failed to generate image with Gemini. Please try again.")
     ELSE generateVisualStoryPages(b, slot, bks, nextId)

\* ----------------------------------- generateVisualStory, server/openai.ts
\* What the narrative provider call can do: "ok" with a story, "nopages"
\* (JSON without a pages array), "fail" (the call raises), "badjson" (the
\* content does not parse).
NarrativeOutcomes(maxPages) ==
  {[kind |-> "ok", story |-> StoryOf(n)] : n \in 0 .. maxPages}
    \cup {[kind |-> k, story |-> StoryWithoutPages] :
            k \in {"nopages", "fail", "badjson"}}

\* A story of one batch at most, and the failing call.
StoreNarratives ==
  {[kind |-> "ok", story |-> StoryOf(Min(MaxPages, maxConcurrent))],
   [kind |-> "fail", story |-> StoryWithoutPages]}

\* Variant: unparseable content read as the empty object.
generateVisualStoryThrowsOnCallOnly(outcome) == outcome.kind = "fail"

\* TRUE when generateVisualStory throws its own error.
generateVisualStoryThrows(outcome) == outcome.kind \in {"fail", "badjson"}

\* One provider attempt of a call has returned and the adapter has settled
\* with `result`: the code that runs on from there.
adapterSettled(b, slot0, index, result, bks, nextId) ==
  LET slot == [slot0 EXCEPT
                 !.calls = [k \in DOMAIN @ \ {index} |-> @[k]]]
      s2 == [slot EXCEPT
               !.settled = Append(@, [index |-> index, result |-> result])]
  IN CASE slot.pc = "cover" -> coverSettled(b, slot, result, bks, nextId)
       [] slot.pc = "first" ->
            firstPageSettled(b.gemini, [slot EXCEPT !.first = result],
                             bks, nextId)
       [] slot.pc = "seq" ->
            sequentialSettled(b.gemini, slot, result, bks, nextId)
       [] OTHER ->
            IF DOMAIN s2.calls # {} THEN Waiting(s2, bks, nextId)
            ELSE batchSettled(b.gemini, s2, bks, nextId)

\* The simplified prompt of the retrying draft's second attempt.
retryPrompt(prompt) == Wrap(Text(prompt.words, Min(prompt.len, 60)), {}, 80)

\* ---------------------------------------------------------------- actions
InFlight == {r \in Req : req[r].pc # "idle"}

\* A turn of a generate handler ends: its locals stay while it waits, and
\* go with the response when it answers.
Apply(r, out) ==
  /\ req' = [req EXCEPT ![r] = IF out.status = 0 THEN out.slot ELSE Idle]
  /\ books' = out.books
  /\ bookId' = out.bookId
  /\ last' = IF out.status = 0 THEN NoResponse
             ELSE Response("generate", r, out.slot.body, out.status,
                           out.message, out.result, out.slot)
  /\ UNCHANGED <<build, orders, orderId, imageCounter, wizard, probing,
                 microtasks>>

\* POST /api/books/generate arrives: validation, then the narrative call.
PostGenerate(r, bodies, maxBooks) ==
  \E body \in bodies :
    /\ req[r].pc = "idle"
    /\ IF bookGenerationSchemaOk(body)
       THEN /\ (bookId - 1) + Cardinality(InFlight) < maxBooks
            /\ Apply(r, Waiting(
                 [Idle EXCEPT !.pc = "narrative", !.body = body, !.nNarr = 1,
                              !.narrativeDesc =
                                 narrativeCharacterDesc(build.openai,
                                                        validatedData(body))],
                 books, bookId))
       ELSE Apply(r, Out([Idle EXCEPT !.body = body], books, bookId, 400,
                         "zod validation error", <<>>))

\* The narrative provider call returns: generateVisualStory ends, and the
\* route calls generateBookImage for the cover.
NarrativeReturns(r, outcomes) ==
  \E outcome \in outcomes :
    /\ req[r].pc = "narrative"
    /\ IF generateVisualStoryThrows(outcome)
       THEN Apply(r, RouteCatch([req[r] EXCEPT !.narr = outcome.kind],
                    books, bookId,
                    "Failed to generate visual story. Please try again later."))
       ELSE Apply(r, Waiting(
              StartCall([req[r] EXCEPT !.pc = "cover", !.narr = outcome.kind,
                                       !.story = outcome.story,
                                       !.characterDesc =
                                          routeCharacterDesc(
                                            validatedData(req[r].body))],
                        0, coverPrompt(outcome.story)), books, bookId))

\* The image provider answers one attempt of one adapter call.
ProviderReturns(r, outcomes) ==
  \E index \in DOMAIN req[r].calls, outcome \in outcomes :
    LET call == req[r].calls[index]
        step == generateImageWithGemini(build.gemini, call.prompt,
                                        call.attempt, outcome)
    IN /\ req[r].pc \in {"cover", "first", "batch", "seq"}
       /\ IF step.retry
          THEN Apply(r, Waiting(
                 [req[r] EXCEPT !.calls[index] =
                                   [attempt |-> call.attempt + 1,
                                    prompt |-> retryPrompt(call.prompt)],
                                !.nImg = @ + 1], books, bookId))
          ELSE Apply(r, adapterSettled(build, req[r], index, step.result,
                                       books, bookId))

\* The 500 ms pause between two batches of the stock draft ends.
TimerFires(r) ==
  /\ req[r].pc = "delay"
  /\ LET slot == [req[r] EXCEPT !.pc = "batch", !.i = @ + maxConcurrent]
     IN Apply(r, Waiting(StartCalls(slot, slot.i, BatchEnd(slot)),
                         books, bookId))

\* ------------------------------------------------------ POST /api/orders
\* Variant: the Book is updated before the body is validated.
OrderOutcomeValidatesLate(body, bks, ords, nextOrder) ==
  LET ord == createOrder(ords, nextOrder,
                         [bookId |-> body.bookId, format |-> body.format,
                          total |-> body.total, status |-> "pending"])
      upd == updateBook(bks, body.bookId,
                        [format |-> body.format, price |-> body.total])
      left(st, msg, b) ==
        [status |-> st, message |-> msg, result |-> <<>>,
         books |-> b, orders |-> ords, orderId |-> nextOrder]
  IN
  IF ~checkoutSchemaOk(body)
  THEN left(400, "zod validation error",
            IF getBook(bks, body.bookId) = Undefined THEN bks ELSE upd.books)
  ELSE IF body.bookId = 0 THEN left(400, "Book ID is required", bks)
  ELSE IF getBook(bks, body.bookId) = Undefined
  THEN left(404, "Book not found", bks)
  ELSE [status |-> 201, message |-> "", result |-> ord.order,
        books |-> upd.books, orders |-> ord.orders, orderId |-> ord.orderId]

\* Variant: the Order is stored before the Book is looked up.
OrderOutcomeCreatesFirst(body, bks, ords, nextOrder) ==
  LET same(st, msg) ==
        [status |-> st, message |-> msg, result |-> <<>>,
         books |-> bks, orders |-> ords, orderId |-> nextOrder]
      ord == createOrder(ords, nextOrder,
                         [bookId |-> body.bookId, format |-> body.format,
                          total |-> body.total, status |-> "pending"])
      upd == updateBook(bks, body.bookId,
                        [format |-> body.format, price |-> body.total])
  IN
  IF ~checkoutSchemaOk(body) THEN same(400, "zod validation error")
  ELSE IF body.bookId = 0 THEN same(400, "Book ID is required")
  ELSE IF getBook(bks, body.bookId) = Undefined
  THEN [status |-> 404, message |-> "Book not found", result |-> <<>>,
        books |-> bks, orders |-> ord.orders, orderId |-> ord.orderId]
  ELSE [status |-> 201, message |-> "", result |-> ord.order,
        books |-> upd.books, orders |-> ord.orders, orderId |-> ord.orderId]

\* The whole handler: none of its awaits waits for I/O.
OrderOutcome(body, bks, ords, nextOrder) ==
  LET same(st, msg) ==
        [status |-> st, message |-> msg, result |-> <<>>,
         books |-> bks, orders |-> ords, orderId |-> nextOrder]
  IN
  IF ~checkoutSchemaOk(body) THEN same(400, "zod validation error")
  ELSE IF body.bookId = 0 THEN same(400, "Book ID is required")
  ELSE IF getBook(bks, body.bookId) = Undefined THEN same(404, "Book not found")
  ELSE
    LET upd == updateBook(bks, body.bookId,
                          [format |-> body.format, price |-> body.total])
        ord == createOrder(ords, nextOrder,
                           [bookId |-> body.bookId, format |-> body.format,
                            total |-> body.total, status |-> "pending"])
    IN IF upd.threw THEN same(500, "Failed to create order")
       ELSE [status |-> 201, message |-> "", result |-> ord.order,
             books |-> upd.books, orders |-> ord.orders,
             orderId |-> ord.orderId]

PostOrderOf(bodies) ==
  \E body \in bodies :
    LET out == OrderOutcome(body, books, orders, orderId) IN
    /\ out.orderId <= MaxOrders + 1
    /\ books' = out.books
    /\ orders' = out.orders
    /\ orderId' = out.orderId
    /\ last' = Response("order", "", body, out.status, out.message,
                        out.result, Idle)
    /\ UNCHANGED <<build, bookId, req, imageCounter, wizard, probing,
                   microtasks>>

PostOrder == PostOrderOf(OrderBodies)

\* ------------------------------- POST /api/orders, one await at a time
\* An order handler suspended at an await: the body, the await it stands
\* at ("getBook": the route's, "read": the one inside updateBook,
\* "updateBook", "createOrder": the route's), and the value it waits for.
Suspended(body, at, value) == [body |-> body, at |-> at, value |-> value]

\* Variant: a scheduler that resumes any suspended handler.
runnableAny(queue) == DOMAIN queue

\* The microtask queue is first in, first out: the handler that was
\* suspended first is resumed first.
runnable(queue) == IF queue = <<>> THEN {} ELSE {1}

Without(queue, k) == SubSeq(queue, 1, k - 1) \o SubSeq(queue, k + 1, Len(queue))

\* A step of an order handler sends its response and ends.
OrderResponds(body, st, msg, res) ==
  last' = Response("order", "", body, st, msg, res, Idle)

\* A request arrives and its handler runs to the first await.  Requests
\* are dispatched before the microtasks of the turn: none has run yet.
OrderArrives ==
  \E body \in OrderBodies :
    /\ \A k \in DOMAIN microtasks : microtasks[k].at = "getBook"
    /\ (orderId - 1) + Len(microtasks) < MaxOrders
    /\ IF ~checkoutSchemaOk(body)
       THEN /\ OrderResponds(body, 400, "zod validation error", <<>>)
            /\ UNCHANGED microtasks
       ELSE IF body.bookId = 0
       THEN /\ OrderResponds(body, 400, "Book ID is required", <<>>)
            /\ UNCHANGED microtasks
       ELSE /\ microtasks' = Append(microtasks,
                                Suspended(body, "getBook",
                                          getBook(books, body.bookId)))
            /\ last' = NoResponse
    /\ UNCHANGED <<build, books, orders, bookId, orderId, req, imageCounter,
                   wizard, probing>>

\* The handler at the head of the queue runs from its await to the next.
MicrotaskRuns ==
  \E k \in runnable(microtasks) :
    LET task == microtasks[k]
        body == task.body
        rest == Without(microtasks, k)
        suspend(at, value) ==
          /\ microtasks' = Append(rest, Suspended(body, at, value))
          /\ last' = NoResponse
        respond(st, msg, res) ==
          /\ microtasks' = rest
          /\ OrderResponds(body, st, msg, res)
    IN
    /\ CASE task.at = "getBook" ->
              /\ IF task.value = Undefined
                 THEN respond(404, "Book not found", <<>>)
                 ELSE suspend("read", getBook(books, body.bookId))
              /\ UNCHANGED <<books, orders, orderId>>
         [] task.at = "read" ->
              LET upd == updateBook(IF task.value = Undefined THEN <<>>
                                    ELSE (body.bookId :> task.value) @@ books,
                                    body.bookId,
                                    [format |-> body.format,
                                     price |-> body.total])
              IN /\ books' = IF upd.threw THEN books ELSE upd.books
                 /\ suspend("updateBook", upd.threw)
                 /\ UNCHANGED <<orders, orderId>>
         [] task.at = "updateBook" ->
              IF task.value
              THEN /\ respond(500, "Failed to create order", <<>>)
                   /\ UNCHANGED <<books, orders, orderId>>
              ELSE LET ord == createOrder(orders, orderId,
                                [bookId |-> body.bookId, format |-> body.format,
                                 total |-> body.total, status |-> "pending"])
                   IN /\ orders' = ord.orders
                      /\ orderId' = ord.orderId
                      /\ suspend("createOrder", ord.order)
                      /\ UNCHANGED books
         [] OTHER ->
              /\ respond(201, "", task.value)
              /\ UNCHANGED <<books, orders, orderId>>
    /\ UNCHANGED <<build, bookId, req, imageCounter, wizard, probing>>

\* A turn of a generate handler starts when no microtask is left.
BetweenTurns(A) == microtasks = <<>> /\ A

\* ------------------------------------- the wizard, client/pages/create-book
\* bookData as far as the server's schema looks at it: the number of
\* interests and companions, whether the required fields of step 1 and of
\* step 2 are filled, the story theme and goal ("": empty), and whether the
\* optional appearance attributes are there.
BookData(i, s1, s2, x, theme, c) ==
  [interests |-> i, step1 |-> s1, step2 |-> s2, extras |-> x,
   storyTheme |-> theme, companions |-> c]
\* useState initial values: every string empty, every list empty.
InitialBookData == BookData(0, FALSE, FALSE, FALSE, "", 0)

\* What the forms hand to onSubmit: react-hook-form calls it with values
\* that pass the step's formSchema only.
ChildInfoValues == {[interests |-> i] : i \in {InterestsMin, InterestsMax}}
CharacterValues == {[extras |-> x] : x \in BOOLEAN}
StorySettingsValues ==
  {[storyTheme |-> t, companions |-> c] :
     t \in {"adventure", "space"}, c \in {0, CompanionsMax}}
NoValues == [storyTheme |-> "", companions |-> 0]

\* The JSON body apiRequest sends for a bookData object.
RequestBody(bookData) ==
  GenBody(bookData.interests, bookData.companions,
          bookData.step1 /\ bookData.step2 /\ bookData.storyTheme # "",
          bookData.extras)

\* A useMutation: idle or pending (isPending) with the variables mutate was
\* given.  `from` keeps the step whose handler called mutate and `submitted`
\* the step-3 values of the form submission that called it.
IdleMutation ==
  [status |-> "idle", variables |-> <<>>, from |-> 0, submitted |-> NoValues]
Pending(variables, from, submitted) ==
  [status |-> "pending", variables |-> variables, from |-> from,
   submitted |-> submitted]

\* The page after mount: the useState initial values.
CreateBook ==
  [currentStep |-> 1, bookData |-> InitialBookData, generatedStory |-> <<>>,
   bookFormat |-> "hardcover", generateStoryMutation |-> IdleMutation,
   checkoutMutation |-> IdleMutation, orderComplete |-> FALSE]

\* nextStep and prevStep: the guard reads the rendered step, the update is
\* functional.
nextStep(w) ==
  IF w.currentStep < 5 THEN [w EXCEPT !.currentStep = @ + 1] ELSE w
prevStep(w) ==
  IF w.currentStep > 1 THEN [w EXCEPT !.currentStep = @ - 1] ELSE w
\* updateBookData: setBookData(prev => ({ ...prev, ...data })).
updateBookData(w, data) == [w EXCEPT !.bookData = data @@ @]

\* The server's variables: the wizard's own handlers leave them alone.
server ==
  <<build, books, orders, bookId, orderId, req, imageCounter, probing,
    microtasks>>

\* Step 1, ChildInfo.onSubmit: updateBookData(values); onNext().
SubmitChildInfo ==
  \E values \in ChildInfoValues :
    /\ wizard.currentStep = 1
    /\ wizard' = nextStep(updateBookData(wizard,
                    [interests |-> values.interests, step1 |-> TRUE]))
    /\ UNCHANGED <<server, last>>

\* Step 2, VisualCharacterCustomizer.onSubmit.
SubmitCharacter ==
  \E values \in CharacterValues :
    /\ wizard.currentStep = 2
    /\ wizard' = nextStep(updateBookData(wizard,
                    [step2 |-> TRUE, extras |-> values.extras]))
    /\ UNCHANGED <<server, last>>

\* The Previous button of steps 2, 3 and 5 (disabled while the step's
\* mutation is pending; the preview and the order confirmation have none).
PreviousPressed ==
  /\ \/ wizard.currentStep = 2
     \/ wizard.currentStep = 3 /\ wizard.generateStoryMutation.status = "idle"
     \/ /\ wizard.currentStep = 5
        /\ wizard.checkoutMutation.status = "idle"
        /\ ~wizard.orderComplete
  /\ wizard' = prevStep(wizard)
  /\ UNCHANGED <<server, last>>

\* handleGenerateStory and handleRegenerateStory: mutate(bookData), with the
\* bookData of the render the handler was created in.
handleGenerateStory(rendered, submitted) ==
  Pending(rendered.bookData, rendered.currentStep, submitted)

\* Step 3, StorySettings.onSubmit: updateBookData(values); onNext(), where
\* onNext is handleGenerateStory.  setBookData takes effect at the next
\* render; the handler that runs is the one of this render.
SubmitStorySettings ==
  \E values \in StorySettingsValues :
    /\ wizard.currentStep = 3
    /\ wizard.generateStoryMutation.status = "idle"
    /\ wizard' = [updateBookData(wizard, values) EXCEPT
                    !.generateStoryMutation =
                       handleGenerateStory(wizard, values)]
    /\ UNCHANGED <<server, last>>

\* BookPreview shows its buttons once the story is there and no generation
\* is pending.
PreviewShown ==
  /\ wizard.currentStep = 4
  /\ wizard.generateStoryMutation.status = "idle"
  /\ wizard.generatedStory # <<>>

\* Step 4, the Regenerate button.
RegeneratePressed ==
  /\ PreviewShown
  /\ wizard' = [wizard EXCEPT
                  !.generateStoryMutation =
                     handleGenerateStory(wizard,
                       [storyTheme |-> wizard.bookData.storyTheme,
                        companions |-> wizard.bookData.companions])]
  /\ UNCHANGED <<server, last>>

\* Step 4, the format selection.
SetBookFormat ==
  \E format \in {"hardcover", "digital"} :
    /\ PreviewShown
    /\ format # wizard.bookFormat
    /\ wizard' = [wizard EXCEPT !.bookFormat = format]
    /\ UNCHANGED <<server, last>>

\* Step 4, the Proceed to Checkout button: onNext is nextStep.
ProceedPressed ==
  /\ PreviewShown
  /\ wizard' = nextStep(wizard)
  /\ UNCHANGED <<server, last>>

\* The request of the pending generate mutation reaches the server.
WizardPostGenerate ==
  /\ wizard.generateStoryMutation.status = "pending"
  /\ last.kind # "generate"
  /\ PostGenerate("r1", {RequestBody(wizard.generateStoryMutation.variables)},
                  MaxBooks)

\* Variant: an onError that moves on to the preview.
generateOnErrorAdvances(w) == nextStep(w)

\* generateStoryMutation.onError: a toast.
generateOnError(w) == w

\* generateStoryMutation.onSuccess: setGeneratedStory(data); nextStep().
generateOnSuccess(w, data) == nextStep([w EXCEPT !.generatedStory = data])

\* The response arrives: mutationFn throws unless res.ok.
GenerateSettles ==
  /\ wizard.generateStoryMutation.status = "pending"
  /\ last.kind = "generate"
  /\ LET w == [wizard EXCEPT !.generateStoryMutation = IdleMutation]
     IN wizard' = IF last.status = 200
                  THEN generateOnSuccess(w, last.result)
                  ELSE generateOnError(w)
  /\ last' = NoResponse
  /\ UNCHANGED server

\* Checkout.onSubmit: a toast and no request without a bookId.
checkoutData(w) ==
  [bookId |-> w.generatedStory.bookId, fields |-> TRUE,
   format |-> w.bookFormat,
   total |-> IF w.bookFormat = "hardcover" THEN "29.99" ELSE "14.99"]

SubmitCheckout ==
  /\ wizard.currentStep = 5
  /\ wizard.checkoutMutation.status = "idle"
  /\ ~wizard.orderComplete
  /\ wizard' =
       IF wizard.generatedStory = <<>> \/ wizard.generatedStory.bookId = 0
       THEN wizard
       ELSE [wizard EXCEPT !.checkoutMutation =
                              Pending(checkoutData(wizard), 5, NoValues)]
  /\ UNCHANGED <<server, last>>

\* The request of the pending checkout mutation reaches the server.
WizardPostOrder ==
  /\ wizard.checkoutMutation.status = "pending"
  /\ last.kind # "order"
  /\ PostOrderOf({wizard.checkoutMutation.variables})

\* The order response arrives.  What apiRequest does with a response that
\* is not ok is not known: onSuccess or onError.
OrderSettles ==
  /\ wizard.checkoutMutation.status = "pending"
  /\ last.kind = "order"
  /\ \E success \in BOOLEAN :
       /\ last.status = 201 => success
       /\ wizard' = [wizard EXCEPT !.checkoutMutation = IdleMutation,
                                   !.orderComplete = success]
  /\ last' = NoResponse
  /\ UNCHANGED server

\* ------------------------------------- the probe for an unused pool index
\* The locals of the de-duplication code of the batch function: the used
\* set, the index it starts from, newIndex, the number of prompts, and
\* where it stands ("if": before the if, "while": at the loop test,
\* "done": after the block, with the index it yields).
NotProbing ==
  [pc |-> "none", used |-> {}, fallbackIndex |-> 0, newIndex |-> 0,
   prompts |-> 0]

\* The if around the loop.  server/gemini.ts: the index is used and fewer
\* than length - 1 indices are; unnamed/part_005: the index is used and the
\* pool is larger than the story.
probeEntered(gemini, p) ==
  IF gemini = "counting"
  THEN p.fallbackIndex \in p.used /\ PoolSize > p.prompts
  ELSE p.fallbackIndex \in p.used /\ Cardinality(p.used) < PoolSize - 1

\* Variant: a loop test that looks at the candidate only.
probeContinuesWhileUsed(p) == p.newIndex \in p.used

\* The loop test, the same in both drafts.
probeContinues(p) ==
  p.newIndex \in p.used /\ Cardinality(p.used) < PoolSize - 1

\* The if is evaluated: newIndex = (fallbackIndex + 1) % length, or the
\* block is skipped and the index stays.
ProbeStarts ==
  /\ probing.pc = "if"
  /\ probing' =
       IF probeEntered(build.gemini, probing)
       THEN [probing EXCEPT !.pc = "while",
                            !.newIndex = (probing.fallbackIndex + 1) % PoolSize]
       ELSE [probing EXCEPT !.pc = "done"]
  /\ UNCHANGED <<build, books, orders, bookId, orderId, req, last,
                 imageCounter, wizard, microtasks>>

\* One evaluation of the loop test: another iteration, or the exit with
\* fallbackIndex = newIndex and the index added to the used set.
ProbeSteps ==
  /\ probing.pc = "while"
  /\ probing' =
       IF probeContinues(probing)
       THEN [probing EXCEPT !.newIndex = (@ + 1) % PoolSize]
       ELSE [probing EXCEPT !.pc = "done", !.fallbackIndex = probing.newIndex]
  /\ UNCHANGED <<build, books, orders, bookId, orderId, req, last,
                 imageCounter, wizard, microtasks>>

\* ---------------------------------------------------------- specification
Builds == [gemini : {"stock", "retry"}, openai : {"absorb", "rethrow"}]

Init ==
  /\ build \in Builds
  /\ books = <<>>
  /\ orders = <<>>
  /\ bookId = 1
  /\ orderId = 1
  /\ req = [r \in Req |-> Idle]
  /\ last = NoResponse
  /\ imageCounter = 0
  /\ wizard = CreateBook
  /\ probing = NotProbing
  /\ microtasks = <<>>

\* The store and the interleaving of requests: two generate requests in
\* flight, order requests, stories short enough to need a single batch, an
\* image provider that answers (SpecGen has its failures).
Next ==
  \/ \E r \in Req : PostGenerate(r, FewBodies, MaxBooks)
  \/ \E r \in Req : NarrativeReturns(r, StoreNarratives)
  \/ \E r \in Req : ProviderReturns(r, OkOutcomes)
  \/ PostOrder

Spec == Init /\ [][Next]_vars

\* One generate request at a time on an empty store, with every request
\* body, every provider outcome and stories of several batches.
NextGen ==
  \/ PostGenerate("r1", GenBodies, 1)
  \/ NarrativeReturns("r1", NarrativeOutcomes(MaxGenPages))
  \/ ProviderReturns("r1", AllOutcomes)
  \/ TimerFires("r1")

SpecGen == Init /\ [][NextGen]_vars

\* One generate request at a time under the assumption that every provider
\* call that is waited for returns or fails and that every timer fires.
\* Requests arrive or not: their arrival is not fair.  (The order handler
\* waits for nothing: PostOrder is a single step.)
LiveNarrativeReturns == NarrativeReturns("r1", NarrativeOutcomes(MaxLivePages))
LiveProviderReturns == ProviderReturns("r1", AllOutcomes)
NextLive ==
  \/ PostGenerate("r1", FewBodies, 1)
  \/ LiveNarrativeReturns
  \/ LiveProviderReturns
  \/ TimerFires("r1")

\* Weak fairness of an action, WF_vars(A), with the state predicate that
\* says when A can take a step written out: A is infinitely often not
\* enabled, or takes infinitely many steps.
NarrativeCallWaited == req["r1"].pc = "narrative"
ProviderCallWaited == req["r1"].calls # <<>>
TimerWaited == req["r1"].pc = "delay"
FairNarrative ==
  []<>(~NarrativeCallWaited) \/ []<><<LiveNarrativeReturns>>_vars
FairProvider ==
  []<>(~ProviderCallWaited) \/ []<><<LiveProviderReturns>>_vars
FairTimer ==
  []<>(~TimerWaited) \/ []<><<TimerFires("r1")>>_vars

SpecLive ==
  /\ Init
  /\ [][NextLive]_vars
  /\ FairNarrative
  /\ FairProvider
  /\ FairTimer

\* Two handlers calling the single-image adapter of a draft that has the
\* module counter (server/gemini.ts, unnamed/part_005), each call with a
\* prompt and a provider outcome of its own.
SharedBuilds == [gemini : {"stock", "counting"}, openai : {"absorb"}]
SharedPrompts == {coverPrompt(StoryOf(1)), firstPagePrompt(PageOf(2))}

InitShared ==
  /\ build \in SharedBuilds
  /\ books = <<>>
  /\ orders = <<>>
  /\ bookId = 1
  /\ orderId = 1
  /\ req = [r \in Req |-> Idle]
  /\ last = NoResponse
  /\ imageCounter = 0
  /\ wizard = CreateBook
  /\ probing = NotProbing
  /\ microtasks = <<>>

\* Handler r calls generateImageWithGemini(prompt).
AdapterCalled(r) ==
  \E prompt \in SharedPrompts :
    /\ req[r].nImg < MaxSharedCalls
    /\ req' = [req EXCEPT ![r] =
                 StartCall([@ EXCEPT !.pc = "batch",
                                     !.prompts = Append(@, prompt)],
                           Len(@.prompts), prompt)]
    /\ UNCHANGED <<build, books, orders, bookId, orderId, last, imageCounter,
                   wizard, probing, microtasks>>

\* The provider answers a call of handler r and the adapter returns.
AdapterReturns(r) ==
  \E index \in DOMAIN req[r].calls, outcome \in AllOutcomes :
    LET call == req[r].calls[index]
        out == generateImageWithGeminiShared(build.gemini, call.prompt,
                                             outcome, imageCounter)
    IN /\ req' = [req EXCEPT ![r] =
                    [@ EXCEPT !.calls = [k \in DOMAIN @ \ {index} |-> @[k]],
                              !.settled = Append(@, [index |-> index,
                                                     outcome |-> outcome,
                                                     result |-> out.result])]]
       /\ imageCounter' = out.imageCounter
       /\ UNCHANGED <<build, books, orders, bookId, orderId, last, wizard,
                      probing, microtasks>>

NextShared ==
  \/ \E r \in Req : AdapterCalled(r)
  \/ \E r \in Req : AdapterReturns(r)

SpecShared == InitShared /\ [][NextShared]_vars

\* The wizard in front of the server: one page, whose requests the route
\* handlers answer (stories of a single batch, a provider that answers or
\* a narrative call that fails).
NextWizard ==
  \/ SubmitChildInfo
  \/ SubmitCharacter
  \/ PreviousPressed
  \/ SubmitStorySettings
  \/ WizardPostGenerate
  \/ NarrativeReturns("r1", StoreNarratives)
  \/ ProviderReturns("r1", OkOutcomes)
  \/ GenerateSettles
  \/ RegeneratePressed
  \/ SetBookFormat
  \/ ProceedPressed
  \/ SubmitCheckout
  \/ WizardPostOrder
  \/ OrderSettles

SpecWizard == Init /\ [][NextWizard]_vars

\* The order handlers await by await, next to one generate handler that
\* creates the Books they name.
NextOrders ==
  \/ BetweenTurns(PostGenerate("r1", FewBodies, MaxBooks))
  \/ BetweenTurns(NarrativeReturns("r1", StoreNarratives))
  \/ BetweenTurns(ProviderReturns("r1", OkOutcomes))
  \/ OrderArrives
  \/ MicrotaskRuns

SpecOrders == Init /\ [][NextOrders]_vars

\* The probe alone, started in every state of its locals: every used set,
\* every start index, a story shorter and one not shorter than the pool.
\* The code is synchronous: a started loop goes on.
InitProbe ==
  /\ build \in SharedBuilds
  /\ books = <<>>
  /\ orders = <<>>
  /\ bookId = 1
  /\ orderId = 1
  /\ req = [r \in Req |-> Idle]
  /\ last = NoResponse
  /\ imageCounter = 0
  /\ wizard = CreateBook
  /\ microtasks = <<>>
  /\ \E used \in SUBSET (0 .. PoolSize - 1), index \in 0 .. PoolSize - 1,
        n \in {1, PoolSize} :
       probing = [pc |-> "if", used |-> used, fallbackIndex |-> index,
                  newIndex |-> 0, prompts |-> n]

NextProbe ==
  \/ ProbeStarts
  \/ ProbeSteps

ProbeRuns == probing.pc \in {"if", "while"}
SpecProbe == InitProbe /\ [][NextProbe]_vars /\ WF_vars(NextProbe)

\* ------------------------------------------------------------- properties
\* A usable image reference: a string that is neither null nor undefined
\* nor empty.
IsImageReference(v) == v \notin {Null, Undefined} /\ v.url # ""

\* The handlers whose locals the state shows: those in flight, and the one
\* that has just answered.
Handlers == {req[r] : r \in Req} \cup {last.slot}

\* The adapter calls of a handler that have settled.
SettledCalls(slot) ==
  {slot.cover, slot.first} \cup {slot.settled[k].result : k \in DOMAIN slot.settled}

\* The stock references the drafts substitute for a failed generation.
FallbackPool ==
  PoolRefs \cup {StockCover} \cup {PageStock(index) : index \in 0 .. MaxGenPages}

\* C1: a call of the single-image adapter (generateImageWithGemini, and
\* generateBookImage around it) never throws: whatever the provider does,
\* the call settles by returning a non-empty image reference.
C1_AdapterNeverThrows ==
  \A slot \in Handlers : \A result \in SettledCalls(slot) :
    result.attempts > 0 => ~result.threw /\ IsImageReference(result.value)

\* A cover call and a page call whose provider failed have both settled.
C1_Witness ==
  /\ last.kind = "generate"
  /\ last.slot.cover.attempts > 0 /\ last.slot.cover.failed
  /\ \E k \in DOMAIN last.slot.settled : last.slot.settled[k].result.failed

\* C2: a generate request that fails validation (interests empty or more
\* than 3, more than 2 companions, a required field missing) is answered
\* with 400, and its handler has made no provider call and no store write.
C2_InvalidRequestRejected ==
  (/\ last.kind = "generate"
   /\ \/ last.body.interests < 1
      \/ last.body.interests > 3
      \/ last.body.companions > 2
      \/ ~last.body.required)
  => /\ last.status = 400
     /\ last.slot.nNarr = 0
     /\ last.slot.nImg = 0
     /\ last.slot.nWrite = 0

\* A request with four interests has been answered.
C2_Witness ==
  /\ last.kind = "generate"
  /\ last.body.interests = 4
  /\ last.status = 400

\* C3: the pages array of a 200 response has as many elements as the
\* narrative adapter returned pages, in the same order, and every element's
\* imageUrl is a non-null, non-empty string.
C3_PagesComplete ==
  (last.kind = "generate" /\ last.status = 200)
  => /\ Len(last.result.pages) = Len(last.slot.story.pages)
     /\ \A k \in DOMAIN last.result.pages :
          /\ last.result.pages[k].text = last.slot.story.pages[k].text
          /\ IsImageReference(last.result.pages[k].imageUrl)

\* A story of the longest length has been answered with 200 although the
\* provider failed for one of its pages.
C3_Witness ==
  /\ last.kind = "generate"
  /\ last.status = 200
  /\ Len(last.result.pages) = MaxGenPages
  /\ \E k \in DOMAIN last.slot.settled : last.slot.settled[k].result.failed

\* C4: the batch function (generateVisualStoryImagesWithGemini), called with
\* n prompts, returns an array of length n whose every index holds a
\* non-empty image reference, whichever provider calls failed.
C4_BatchReturnsFullArray ==
  (last.kind = "generate" /\ last.slot.pc = "batch")
  => /\ Len(last.slot.images) = Len(last.slot.prompts)
     /\ \A k \in DOMAIN last.slot.images : IsImageReference(last.slot.images[k])

\* The batch function has returned for three prompts or more after the
\* provider failed for each of them.
C4_Witness ==
  /\ last.kind = "generate"
  /\ last.slot.pc = "batch"
  /\ Len(last.slot.prompts) >= 3
  /\ Len(last.slot.settled) = Len(last.slot.prompts)
  /\ \A k \in DOMAIN last.slot.settled : last.slot.settled[k].result.failed

\* C5: in the array the batch function returns, the index of a page whose
\* provider call succeeded holds the value the provider returned for that
\* page, and the index of a page whose provider call failed holds an entry
\* of the fallback pool.
C5_IndexHoldsProviderValue ==
  (last.kind = "generate" /\ last.slot.pc = "batch")
  => \A k \in 1 .. Len(last.slot.prompts) :
       /\ k <= Len(last.slot.images)
       /\ IF ResultAt(last.slot, k - 1).failed
          THEN last.slot.images[k] \in FallbackPool
          ELSE last.slot.images[k].url \in FileNames

\* The returned array keeps positions: index k holds what the call made for
\* prompt k settled with, in whatever order the calls settled.
BatchKeepsPositions ==
  (last.kind = "generate" /\ last.slot.pc = "batch")
  => \A k \in 1 .. Len(last.slot.prompts) :
       /\ k <= Len(last.slot.images)
       /\ last.slot.images[k] = ResultAt(last.slot, k - 1).value

\* C6: an order request that passes the checkout schema and names an
\* existing Book is answered with 201; the Book's format and price are the
\* submitted format and total; the response is the newly stored Order, with
\* the submitted bookId and status "pending".
C6_OrderForExistingBook ==
  (/\ last.kind = "order"
   /\ last.body.fields
   /\ last.body.bookId \in DOMAIN books)
  => /\ last.status = 201
     /\ books[last.body.bookId].format = last.body.format
     /\ books[last.body.bookId].price = last.body.total
     /\ last.result.bookId = last.body.bookId
     /\ last.result.status = "pending"
     /\ last.result.id = orderId - 1
     /\ last.result.id \in DOMAIN orders
     /\ orders[last.result.id] = last.result

\* A digital order for a generated Book has been answered with 201.
C6_Witness ==
  /\ last.kind = "order"
  /\ last.status = 201
  /\ last.body.bookId \in DOMAIN books
  /\ books[last.body.bookId].format = "digital"
  /\ books[last.body.bookId].price = "9.99"

\* C7: an order request whose bookId names no stored Book is answered with
\* 404; no Order is created and the order id counter does not advance.
C7_UnknownBookStep ==
  (/\ last'.kind = "order"
   /\ last'.body.fields
   /\ last'.body.bookId # 0
   /\ last'.body.bookId \notin DOMAIN books)
  => /\ last'.status = 404
     /\ orders' = orders
     /\ orderId' = orderId
C8_NewBookStep ==
  (last'.kind = "generate" /\ last'.status = 200)
  => LET id == last'.result.bookId
     IN /\ id \notin DOMAIN books
        /\ DOMAIN books' = DOMAIN books \cup {id}
        /\ books'[id].id = id
        /\ \A other \in DOMAIN books : books'[other].id = other
C8_UniqueBookIds == [][C8_NewBookStep]_vars

\* The first Book has been created while a second request with the same
\* body is waiting for its images.
C8_Witness ==
  /\ last.kind = "generate"
  /\ last.status = 200
  /\ \E r \in Req :
       /\ req[r].pc \in {"cover", "first", "batch"}
       /\ req[r].body = last.body

\* C9: when the narrative provider call fails, the request is answered with
\* 500 after that one narrative call, with no image call made and no Book
\* created; no handler goes on after a failed narrative call.
C9_NarrativeFailure ==
  /\ \A r \in Req : req[r].narr \notin {"fail", "badjson"}
  /\ last.slot.narr \in {"fail", "badjson"}
     => /\ last.kind = "generate"
        /\ last.status = 500
        /\ last.slot.nNarr = 1
        /\ last.slot.nImg = 0
        /\ last.slot.nWrite = 0
        /\ books = <<>>

\* The narrative call of a request has returned unparseable content.
C9_Witness ==
  /\ last.kind = "generate"
  /\ last.slot.narr = "badjson"
  /\ last.status = 500

\* C10: a valid request whose narrative call returned a story of at least
\* one page is answered with 200 and has created exactly one Book, whatever
\* image provider calls failed.
C10_AlwaysABook ==
  (/\ last.kind = "generate"
   /\ last.slot.narr = "ok"
   /\ Len(last.slot.story.pages) >= 1)
  => /\ last.status = 200
     /\ last.slot.nWrite = 1
     /\ DOMAIN books = {last.result.bookId}

\* A story of the longest length has been answered with 200 after every
\* image provider call of the request failed.
C10_Witness ==
  /\ last.kind = "generate"
  /\ last.status = 200
  /\ Len(last.slot.story.pages) = MaxGenPages
  /\ last.slot.cover.failed
  /\ last.slot.pc = "batch"
  /\ \A result \in SettledCalls(last.slot) : result.attempts > 0 => result.failed

\* The batch calls of a handler that have settled, each with the prompt the
\* adapter was called with.
SettledBatchCalls(slot) ==
  {[prompt |-> slot.prompts[slot.settled[k].index + 1],
    result |-> slot.settled[k].result] : k \in DOMAIN slot.settled}

\* C11: one call of the single-image adapter makes the primary attempt,
\* makes exactly one more attempt (simplified prompt) only if the first
\* failed, and returns a stock substitute only if both failed: never more
\* than two attempts, never a substitute after fewer than two failed
\* attempts, never a substitute while an attempt succeeded.
C11_TwoAttemptPipeline ==
  \A slot \in Handlers :
    /\ \A index \in DOMAIN slot.calls : slot.calls[index].attempt \in {1, 2}
    /\ \A result \in SettledCalls(slot) :
         result.attempts > 0
         => /\ result.attempts \in {1, 2}
            /\ result.failed => result.attempts = 2
            /\ result.value \in FallbackPool
                 => result.failed /\ result.attempts = 2

\* The retrying draft alone keeps the pipeline of C11.
RetryDraftTwoAttempts == build.gemini = "retry" => C11_TwoAttemptPipeline

\* C12: when every provider attempt of an adapter call has failed, the
\* returned reference is the pool entry selected by the prompt alone: the
\* first matching keyword group (forest, ocean, space, castle, animal,
\* adventure, magic), else prompt length modulo the pool size.
C12_FallbackFromPrompt ==
  \A slot \in Handlers : \A call \in SettledBatchCalls(slot) :
    call.result.failed => call.result.value = Pool(imageIndex(call.prompt))

\* In the stock draft a failed call returns the entry selected by the
\* prompt, or entry 0 when the provider answered without content.
StockDraftFallbackEntries ==
  build.gemini = "stock"
  => \A slot \in Handlers : \A call \in SettledBatchCalls(slot) :
       call.result.failed
       => call.result.value \in {Pool(imageIndex(call.prompt)), Pool(0)}

\* The page (0-based) an in-flight or settled call of a handler is for.
PageOfCall(slot, index) == IF slot.mode = "try" THEN index + 1 ELSE index
IllustratingPages(slot) == slot.pc \in {"first", "seq", "batch", "delay"}
PagesInFlight(slot) ==
  IF slot.pc \in {"batch", "delay"}
  THEN {PageOfCall(slot, index) : index \in DOMAIN slot.calls}
  ELSE DOMAIN slot.calls
\* The call for the first page has settled.
FirstPageDone(slot) ==
  CASE slot.pc = "first" -> FALSE
    [] slot.pc = "seq" -> slot.i > 0
    [] OTHER -> \/ slot.mode = "try"
                \/ \E k \in DOMAIN slot.settled : slot.settled[k].index = 0

\* C13: while the pages of a request are illustrated, at most 2 provider
\* calls are in flight; the calls in flight belong to one batch of 2, every
\* call of the batches before it has settled; and no other page's call is
\* in flight before the first page's call has settled.
C13_AtMostTwoInFlight ==
  \A r \in Req :
    IllustratingPages(req[r])
    => /\ Cardinality(DOMAIN req[r].calls) <= 2
       /\ \A i \in DOMAIN req[r].calls :
            /\ \A j \in DOMAIN req[r].calls : i \div 2 = j \div 2
            /\ req[r].pc = "batch"
               => \A j \in 0 .. (i \div 2) * 2 - 1 :
                    \E k \in DOMAIN req[r].settled : req[r].settled[k].index = j
       /\ (PagesInFlight(req[r]) \ {0} # {}) => FirstPageDone(req[r])

\* The stock batch function under the draft of generateVisualStoryPages
\* that illustrates the first page first keeps the bound of C13.
StockAbsorbBounded ==
  build = [gemini |-> "stock", openai |-> "absorb"] => C13_AtMostTwoInFlight
\* The stock batch function alone keeps the width and the batch order.
StockBatchWidth ==
  build.gemini = "stock"
  => \A r \in Req :
       IllustratingPages(req[r])
       => /\ Cardinality(DOMAIN req[r].calls) <= maxConcurrent
          /\ \A i, j \in DOMAIN req[r].calls :
               i \div maxConcurrent = j \div maxConcurrent

\* The indexes (1-based) of the returned array that hold the substitute of
\* a call whose provider failed.
FallbackPages(slot) ==
  {k \in 1 .. Len(slot.images) : ResultAt(slot, k - 1).failed}

\* C14: in the array one batch illustration call returns, no stock image
\* is given to two pages that needed a fallback while an entry of the pool
\* is still unused (the batches here are shorter than the pool).
C14_NoRepeatedFallback ==
  (last.kind = "generate" /\ last.slot.pc = "batch")
  => \A i, j \in FallbackPages(last.slot) :
       i # j => last.slot.images[i].url # last.slot.images[j].url

\* The claim's case without the answers that carry no content: two pages
\* whose provider call raised hold the same stock image.
RepeatedAfterRaise ==
  /\ last.kind = "generate" /\ last.slot.pc = "batch"
  /\ build.gemini = "stock"
  /\ \E i, j \in FallbackPages(last.slot) :
       /\ i # j
       /\ last.slot.images[i] = last.slot.images[j]
       /\ last.slot.images[i] # Pool(0)

\* C15: a successful order request changes only the format and the price
\* of the Book it names: that Book's other fields, every other Book, the set
\* of Books and the Book id counter stay as they were.
C15_OrderFrameStep ==
  (last'.kind = "order" /\ last'.status = 201)
  => /\ DOMAIN books' = DOMAIN books
     /\ bookId' = bookId
     /\ \A id \in DOMAIN books :
          IF id = last'.body.bookId
          THEN /\ DOMAIN books'[id] = DOMAIN books[id]
               /\ \A f \in DOMAIN books[id] \ {"format", "price"} :
                    books'[id][f] = books[id][f]
          ELSE books'[id] = books[id]
C15_OrderChangesFormatAndPriceOnly == [][C15_OrderFrameStep]_vars

\* With two Books stored, an order for one of them has been answered with
\* 201 and has changed its format; the other Book is still pending.
C15_Witness ==
  /\ last.kind = "order"
  /\ last.status = 201
  /\ Cardinality(DOMAIN books) = 2
  /\ books[last.body.bookId].format = last.body.format
  /\ \E id \in DOMAIN books : books[id].format = "pending"

\* A Book for which an Order is stored.
Ordered(id) == \E o \in DOMAIN orders : orders[o].bookId = id

\* C16: no Book is ever removed, and once an order has set a Book's format
\* and price no later request changes that Book again.
C16_ModifiedOnceStep ==
  \A id \in DOMAIN books :
    /\ id \in DOMAIN books'
    /\ Ordered(id) => books'[id] = books[id]
C16_BookModifiedOnce == [][C16_ModifiedOnceStep]_vars

\* No Book is ever removed, and a Book changes only in the step of an order
\* request that names it and is answered with 201.
BooksChangeByOrdersOnlyStep ==
  \A id \in DOMAIN books :
    /\ id \in DOMAIN books'
    /\ books'[id] # books[id]
       => last'.kind = "order" /\ last'.status = 201 /\ last'.body.bookId = id
BooksChangeByOrdersOnly == [][BooksChangeByOrdersOnlyStep]_vars

\* C17: an order request answered with a status other than 201 leaves the
\* store as it was (Books, Orders and both id counters), and a request
\* without bookId is answered with 400.
C17_FailedOrderStep ==
  last'.kind = "order"
  => /\ last'.status # 201
        => /\ books' = books
           /\ orders' = orders
           /\ bookId' = bookId
           /\ orderId' = orderId
     /\ last'.body.bookId = 0 => last'.status = 400
     /\ ~last'.body.fields => last'.status = 400
     /\ last'.status \in {201, 400, 404, 500}
C17_FailedOrderLeavesStore == [][C17_FailedOrderStep]_vars

\* With a Book and an Order stored, a request without bookId has been
\* answered with 400.
C17_Witness ==
  /\ last.kind = "order"
  /\ last.status = 400
  /\ last.body.fields
  /\ last.body.bookId = 0
  /\ DOMAIN books # {}
  /\ DOMAIN orders # {}

\* The messages the adapters and the routes write themselves.
GenericMessages ==
  {"Failed to generate visual story. Please try again later.",
   "Failed to generate image with Gemini. Please try again.",
   "Failed to generate story illustrations with Gemini. Please try again later.",
   "Failed to generate book",
   "Failed to create order"}

\* C18: the body of every 500 response of the generate and order endpoints
\* carries one of the fixed generic messages, never the message text of an
\* internal exception.
C18_GenericErrorBody ==
  last.status = 500 => last.message \in GenericMessages

\* Every 500 response of a request whose narrative result had a pages
\* array, or whose narrative call failed, carries a generic message.
GenericUnlessNoPages ==
  (last.status = 500 /\ last.slot.narr # "nopages")
  => last.message \in GenericMessages

\* C19: when the narrative provider answers with JSON that has no pages
\* array, the narrative adapter call fails: the request is answered with 500
\* with no image-provider call made and no Book created, and no handler goes
\* on after such an answer.
C19_NoPagesFailsNarrative ==
  /\ \A r \in Req : req[r].narr # "nopages"
  /\ last.slot.narr = "nopages"
     => /\ last.status = 500
        /\ last.slot.nImg = 0
        /\ last.slot.nWrite = 0

\* A request whose narrative result has no pages array is answered with
\* 500 and creates no Book, after the cover call has been made.
NoPagesNoBook ==
  /\ \A r \in Req : req[r].narr = "nopages" => req[r].pc = "cover"
  /\ last.slot.narr = "nopages"
     => /\ last.status = 500
        /\ last.slot.nImg >= 1
        /\ last.slot.nWrite = 0
        /\ last.slot.first.attempts = 0
        /\ last.slot.settled = <<>>

\* C20: within one generate request, validation, the narrative call, the
\* cover call, the page calls, the Book insertion and the response happen
\* in this order without overlap: no image call while the narrative call is
\* in flight, no page call before the cover call has completed, the Book
\* inserted once, after the last page call, with a reference for every
\* page, and in the step that sends the response.
C20_StepOrder ==
  /\ \A slot \in Handlers :
       /\ slot.nNarr > 0
          => /\ slot.body.required
             /\ slot.body.interests \in 1 .. 3
             /\ slot.body.companions <= 2
       /\ slot.pc = "narrative"
          => /\ slot.nNarr = 1 /\ slot.nImg = 0 /\ slot.calls = <<>>
             /\ slot.narr \in {"none", "fail", "badjson"}
       /\ slot.nImg > 0 => slot.narr \in {"ok", "nopages"} /\ slot.nNarr = 1
       /\ slot.pc = "cover"
          => /\ slot.first.attempts = 0 /\ slot.settled = <<>>
             /\ slot.generated = <<>>
             /\ slot.calls # <<>> => slot.cover.attempts = 0
       /\ (IllustratingPages(slot) \/ slot.first.attempts > 0
                                   \/ slot.settled # <<>>)
          => slot.cover.attempts > 0
       /\ slot.nWrite <= 1
       /\ slot.nWrite = 1 => slot = last.slot /\ last.status = 200
  /\ \A r \in Req : req[r].nWrite = 0
  /\ (last.kind = "generate" /\ last.status = 200)
     => /\ last.slot.nWrite = 1
        /\ last.slot.calls = <<>>
        /\ last.result.bookId \in DOMAIN books
        /\ Len(books[last.result.bookId].allPageImages)
             = Len(last.slot.story.pages)
        /\ \A k \in DOMAIN books[last.result.bookId].allPageImages :
             IsImageReference(books[last.result.bookId].allPageImages[k])

\* A story of the longest length has gone through every step: one
\* narrative call, the cover call, a call for every page, one insertion.
C20_Witness ==
  /\ last.kind = "generate"
  /\ last.status = 200
  /\ last.slot.nNarr = 1
  /\ last.slot.cover.attempts > 0
  /\ Len(last.slot.story.pages) = MaxGenPages
  /\ last.slot.nImg >= MaxGenPages + 1
  /\ last.slot.nWrite = 1

\* C21: every generate request and every order request receives exactly one
\* response, provided every provider call returns or fails: a handler that
\* waits is answered at last (200 or 500), whatever calls fail; the step
\* that answers a request ends its handler, so that it is answered once; a
\* handler ends only by answering.
C21_AnsweredStep ==
  \A r \in Req :
       /\ (last'.kind = "generate" /\ last'.rid = r)
          => /\ req'[r] = Idle
             /\ last'.status \in {200, 400, 500}
             /\ req[r].pc = "idle" <=> last'.status = 400
       /\ (req[r].pc # "idle" /\ req'[r].pc = "idle")
          => last'.kind = "generate" /\ last'.rid = r
C21_EveryRequestAnswered ==
  /\ [][C21_AnsweredStep]_vars
  /\ \A r \in Req :
       (req[r].pc # "idle")
         ~> (last.kind = "generate" /\ last.rid = r /\ last.status \in {200, 500})

\* An order request is answered by the step in which it arrives, and the
\* Orders change in such a step only.
OrderAnsweredStep ==
  /\ (orders' # orders \/ orderId' # orderId)
     => last'.kind = "order" /\ last'.status = 201
  /\ last'.kind = "order" => last'.status \in {201, 400, 404, 500}
OrderAnsweredInItsStep == [][OrderAnsweredStep]_vars

\* A request has been answered with 200 after the provider failed for its
\* cover and for every page, the pause between two batches included.
C21_Witness ==
  /\ last.kind = "generate"
  /\ last.status = 200
  /\ last.slot.cover.failed
  /\ last.slot.i > 0
  /\ Len(last.slot.settled) = Len(last.slot.prompts)
  /\ \A k \in DOMAIN last.slot.settled : last.slot.settled[k].result.failed

\* The adapter calls that have returned, over all handlers: the prompt, what
\* the provider did, and the reference returned.
ReturnedCalls ==
  UNION {{[prompt |-> req[r].prompts[req[r].settled[k].index + 1],
           outcome |-> req[r].settled[k].outcome,
           value |-> req[r].settled[k].result.value] :
            k \in DOMAIN req[r].settled} : r \in Req}

\* C22: the image reference chosen for a call depends only on the
\* request's input (the prompt) and on the provider outcome of that call:
\* two calls with the same prompt and the same outcome return the same
\* reference, whatever calls of other requests ran before or between them.
C22_IndependentOfOtherRequests ==
  \A c1, c2 \in ReturnedCalls :
    (c1.prompt = c2.prompt /\ c1.outcome = c2.outcome) => c1.value = c2.value

\* The stock draft writes the counter and never reads it: its references
\* are a function of the prompt and the outcome.
StockDraftIndependent ==
  build.gemini = "stock" => C22_IndependentOfOtherRequests
\* In the stock draft every call whose provider call raised has counted.
StockDraftCounts ==
  build.gemini = "stock"
  => imageCounter = Cardinality({<<r, k>> \in Req \X (1 .. MaxSharedCalls) :
                       /\ k \in DOMAIN req[r].settled
                       /\ StockInnerThrows(req[r].settled[k].outcome)})

C24_BookHoldsRequest ==
  (last.kind = "generate" /\ last.status = 200)
  => /\ last.result.bookId \in DOMAIN books
     /\ books[last.result.bookId].request = last.body

\* The stored Book holds the fields the schema names (the required fields,
\* the interests and the companions) as submitted, and no optional
\* attribute, sent or not.
BookHoldsSchemaFields ==
  (last.kind = "generate" /\ last.status = 200)
  => LET stored == books[last.result.bookId].request
     IN /\ stored.required = last.body.required
        /\ stored.interests = last.body.interests
        /\ stored.companions = last.body.companions
        /\ stored.characterStyle = last.body.characterStyle
        /\ ~stored.extras

\* A Book has been stored for a request sent with the optional attributes.
BookOfRequestWithAttributes ==
  /\ last.kind = "generate"
  /\ last.status = 200
  /\ last.body.extras
  /\ ~books[last.result.bookId].request.extras

\* The pages (0-based) for which a handler has made an adapter call that
\* has settled, one element per call.
PageCallsMade(slot) ==
  (IF slot.first.attempts > 0 THEN <<0>> ELSE <<>>)
    \o [k \in 1 .. Len(slot.settled) |-> PageOfCall(slot, slot.settled[k].index)]
\* Every provider call of the handler succeeded: every adapter call has
\* settled after one attempt, with the provider's content.
EveryCallSucceeded(slot) ==
  \A result \in SettledCalls(slot) :
    result.attempts > 0 => ~result.failed /\ result.attempts = 1

\* C25: in a request whose narrative has N >= 1 pages and whose provider
\* calls all succeed, exactly one cover call and exactly N page calls are
\* made, one for each page, and the pages array has length N.
C25_OneCallPerPage ==
  (/\ last.kind = "generate"
   /\ last.slot.narr = "ok"
   /\ Len(last.slot.story.pages) >= 1
   /\ EveryCallSucceeded(last.slot))
  => LET n == Len(last.slot.story.pages)
         made == PageCallsMade(last.slot)
     IN /\ last.status = 200
        /\ last.slot.cover.attempts = 1
        /\ last.slot.nImg = n + 1
        /\ Len(made) = n
        /\ \A page \in 0 .. n - 1 :
             Cardinality({k \in 1 .. Len(made) : made[k] = page}) = 1
        /\ Len(last.result.pages) = n
        /\ Len(books[last.result.bookId].allPageImages) = n

\* A story of the longest length has been illustrated without a failure
\* by the draft that illustrates the first page before the others.
C25_Witness ==
  /\ last.kind = "generate"
  /\ last.status = 200
  /\ Len(last.slot.story.pages) = MaxGenPages
  /\ EveryCallSucceeded(last.slot)
  /\ last.slot.mode = "try"
  /\ last.slot.nImg = MaxGenPages + 1
\* ------------------------------------------------------------------ C26
\* The body of a generate request the wizard has sent holds the step-3
\* values of `submitted` and passes bookGenerationSchema.
SentComplete(m) ==
  /\ m.variables.storyTheme = m.submitted.storyTheme
  /\ m.variables.companions = m.submitted.companions
  /\ bookGenerationSchemaOk(RequestBody(m.variables))

\* C26: every BookRequest the wizard sends to the generate endpoint
\* contains the values accepted in all three form steps, including those of
\* the step-3 submission that triggers the send, and so satisfies the
\* BookRequest invariant (1 to 3 interests, at most 2 companions, required
\* fields non-empty); the first press of Generate Story sends no stale or
\* empty step-3 fields.
C26_WizardSendsCompleteRequest ==
  wizard.generateStoryMutation.status = "pending" =>
    SentComplete(wizard.generateStoryMutation)

\* What the code does instead: a press of Generate Story sends the bookData
\* of the render before the press, without the values just submitted.
GenerateStorySendsRenderedData ==
  [][SubmitStorySettings =>
       /\ wizard'.generateStoryMutation.variables = wizard.bookData
       /\ wizard'.bookData.storyTheme
            = wizard'.generateStoryMutation.submitted.storyTheme]_vars

\* A Regenerate, which submits no form, sends the complete bookData.
RegenerateSendsComplete ==
  (wizard.generateStoryMutation.status = "pending"
     /\ wizard.generateStoryMutation.from = 4) =>
    SentComplete(wizard.generateStoryMutation)

\* The first press is answered with 400 and the wizard stays on step 3.
FirstPressRejected ==
  /\ wizard.currentStep = 3
  /\ wizard.generateStoryMutation.status = "pending"
  /\ wizard.generateStoryMutation.variables.storyTheme = ""
  /\ last.kind = "generate"
  /\ last.status = 400
  /\ bookId = 1

\* ------------------------------------------------------------------ C27
\* A step in which the wizard takes a 200 response to the generate
\* mutation that was started at step `from`.
SuccessArrives(from) ==
  /\ wizard.generateStoryMutation.status = "pending"
  /\ wizard.generateStoryMutation.from = from
  /\ last.kind = "generate"
  /\ last.status = 200
  /\ wizard'.generateStoryMutation.status = "idle"

\* C27: after any successful generation response the wizard shows the
\* preview (step 4) with the newly generated story, for the first
\* generation started from step 3 and equally for a Regenerate started from
\* step 4, which leaves the user on the preview.
C27_SuccessShowsPreview ==
  [][\A from \in {3, 4} :
       SuccessArrives(from) =>
         /\ wizard'.currentStep = 4
         /\ wizard'.generatedStory = last.result]_vars

\* The part that holds: a generation started from step 3 ends on step 4
\* with the story of the response.
FirstGenerationShowsPreview ==
  [][SuccessArrives(3) =>
       /\ wizard'.currentStep = 4
       /\ wizard'.generatedStory = last.result]_vars

\* What the code does for a Regenerate: the new story is stored and the
\* wizard moves on to the checkout.
RegenerateMovesToCheckout ==
  [][SuccessArrives(4) =>
       /\ wizard'.currentStep = 5
       /\ wizard'.generatedStory = last.result]_vars

\* ------------------------------------------------------------------ C28
\* A step in which the wizard takes a response other than 200 to its
\* generate mutation.
FailureArrives ==
  /\ wizard.generateStoryMutation.status = "pending"
  /\ last.kind = "generate"
  /\ last.status # 200
  /\ wizard'.generateStoryMutation.status = "idle"

HasBookId(story) == story # <<>> /\ story.bookId \in DOMAIN books

WizardStepsInvariant ==
  /\ wizard.currentStep \in 1 .. 5
  /\ wizard.currentStep \in {4, 5} => HasBookId(wizard.generatedStory)
  /\ wizard.checkoutMutation.status = "pending" =>
       /\ wizard.checkoutMutation.variables.bookId \in DOMAIN books
       /\ wizard.checkoutMutation.variables.bookId
            = wizard.generatedStory.bookId

WizardStepsAction ==
  /\ wizard'.currentStep - wizard.currentStep \in {-1, 0, 1}
  /\ (wizard.currentStep = 3 /\ wizard'.currentStep = 4) => SuccessArrives(3)
  /\ FailureArrives =>
       /\ wizard'.currentStep = wizard.generateStoryMutation.from
       /\ wizard'.generatedStory = wizard.generatedStory

\* C28: in the wizard currentStep stays within 1..5 and changes by one per
\* navigation; whenever it is 4 or 5 a generated story with a bookId is
\* present; step 4 is entered only by a successful generation response, a
\* failed generation leaves the wizard on the step it was started from
\* (step 3), and the checkout submits no order without a bookId.
C28_WizardSteps == [](WizardStepsInvariant) /\ [][WizardStepsAction]_vars

\* An order for the generated Book is on its way from step 5.
C28_Witness ==
  /\ wizard.currentStep = 5
  /\ wizard.checkoutMutation.status = "pending"
  /\ HasBookId(wizard.generatedStory)
  /\ wizard.checkoutMutation.variables.bookId = wizard.generatedStory.bookId
  /\ orders = <<>>

\* A generation has failed on step 3 after the required fields were sent.
GenerationFailedOnStepThree ==
  /\ wizard.currentStep = 3
  /\ wizard.generateStoryMutation.status = "pending"
  /\ last.kind = "generate"
  /\ last.status = 500

\* ------------------------------------------------------------------ C29
\* C29: the linear probe for an unused fallback-pool index terminates for
\* every state of the used-index set (from empty to all pool indices used)
\* and every starting index, and the index it yields is within the bounds
\* of the pool.
C29_ProbeTerminatesInBounds ==
  /\ ProbeRuns ~> probing.pc = "done"
  /\ [](/\ probing.fallbackIndex \in 0 .. PoolSize - 1
        /\ probing.newIndex \in 0 .. PoolSize - 1)

\* The loop has gone round the end of the pool to the first unused index,
\* with as many indices used as the loop test lets it search.
C29_Witness ==
  /\ probing.pc = "done"
  /\ Cardinality(probing.used) = PoolSize - 2
  /\ {0, PoolSize - 1} \subseteq probing.used
  /\ probing.newIndex = 1
  /\ probing.fallbackIndex = 1
  /\ 1 \notin probing.used

\* With every pool index used the loop ends at its first test, and the
\* index it yields is a used one.
AllUsedYieldsUsed ==
  (probing.pc = "done" /\ Cardinality(probing.used) = PoolSize) =>
    probing.fallbackIndex \in probing.used

\* The block of server/gemini.ts yields what unusedFallbackIndex computes.
LoopIsUnusedFallbackIndex ==
  [][(build.gemini = "stock" /\ probing.pc # "done" /\ probing'.pc = "done")
       => probing'.fallbackIndex
            = unusedFallbackIndex(probing.used, probing.fallbackIndex)]_vars

\* ------------------------------------------------------------------ C30
BookPair(b) == <<books[b].format, books[b].price>>
RequestPair(x) == <<x.format, x.total>>
OrdersFor(b) == {k \in DOMAIN orders : orders[k].bookId = b}
LatestOrderFor(b) ==
  orders[CHOOSE k \in OrdersFor(b) : \A j \in OrdersFor(b) : j <= k]
\* The requests for Book b whose handlers are suspended.
SuspendedFor(b) ==
  {microtasks[k].body : k \in {j \in DOMAIN microtasks :
                                  microtasks[j].body.bookId = b}}

\* C30: under any interleaving of concurrent order requests that name the
\* same Book, the Book's (format, price) pair is at every moment the
\* placeholder ("pending", "0") or the (format, total) pair of one single
\* order request, never a mix of two; and once all of them have finished
\* the pair equals that of the Order with the highest id created for that
\* Book.
C30_BookPairFollowsLatestOrder ==
  \A b \in DOMAIN books :
    /\ \/ BookPair(b) = <<"pending", "0">>
       \/ \E o \in OrdersFor(b) : BookPair(b) = RequestPair(orders[o])
       \/ \E body \in SuspendedFor(b) : BookPair(b) = RequestPair(body)
    /\ microtasks = <<>> =>
         BookPair(b) = IF OrdersFor(b) = {} THEN <<"pending", "0">>
                       ELSE RequestPair(LatestOrderFor(b))

\* Two handlers for the same Book with different formats are suspended at
\* once; one has written the Book, the other has read it before that write.
C30_Witness ==
  /\ Len(microtasks) = 2
  /\ microtasks[1].body.bookId = microtasks[2].body.bookId
  /\ microtasks[1].body.format # microtasks[2].body.format
  /\ microtasks[1].at = "read"
  /\ microtasks[2].at = "updateBook"
  /\ microtasks[1].value.format = "pending"
  /\ BookPair(microtasks[2].body.bookId) = RequestPair(microtasks[2].body)

====
